---- MODULE Spec2Model ----
(***************************************************************************)
(* The client of the Networking Troubleshooter: the two diagnosis pages    *)
(* (OriginalTroubleshooter at "/", TroubleshooterDashboard at              *)
(* "/agenthack"), the HTTP helpers diagnose and downloadReport, and the    *)
(* requests they have in flight.  One page is mounted at a time; leaving a *)
(* page unmounts it, and the state setters of an unmounted page do nothing.*)
(***************************************************************************)
EXTENDS Integers, Sequences, FiniteSets, TLC

\* Bound of the model: the number of HTTP requests issued in a behaviour.
MaxRequests == 3

----------------------------------------------------------------------------
\* JavaScript strings are tuples of one-character strings.

DefaultUrl == <<"h","t","t","p","s",":","/","/","e","x","a","m","p","l","e",".","c","o","m">>
Beginner == <<"b","e","g","i","n","n","e","r">>
Expert == <<"e","x","p","e","r","t">>

\* What the user can type into the URL input (the default target or a blank),
\* and pick in the mode select.
UrlInputs == {DefaultUrl, <<" ">>}
Modes == {Beginner, Expert}

\* One per-check result: the key (or test_name) and its status.
Check(n, st) == [name |-> n, status |-> st]

\* The result sequences the backend answers with.
SampleSeqs ==
  {<<Check("dns", "PASS"), Check("cors", "FAIL")>>, <<Check("cors", "WARNING")>>}

CountOf(s, st) == Cardinality({i \in 1..Len(s) : s[i].status = st})

\* The tally of a result sequence by status.
Tally(s) ==
  [passed |-> CountOf(s, "PASS"), failed |-> CountOf(s, "FAIL"),
   warnings |-> CountOf(s, "WARNING"), total |-> Len(s)]

ZeroSummary == [passed |-> 0, failed |-> 0, warnings |-> 0, total |-> 0]

\* A response body.  shape: "null", "flat" (a map from check name to result,
\* entries in key order) or "report" ({summary, results, fix_script?});
\* env = "data": the body is wrapped as {success, data: <the body>}.
NullBody ==
  [shape |-> "null", env |-> "none", entries |-> <<>>, summary |-> ZeroSummary, fix |-> ""]

Flat(s) ==
  [shape |-> "flat", env |-> "none", entries |-> s, summary |-> ZeroSummary, fix |-> ""]

Report(s, m, f) ==
  [shape |-> "report", env |-> "none", entries |-> s, summary |-> m, fix |-> f]

\* The summaries a backend may send with results s: the tally, or one that
\* disagrees with it.
SummariesFor(s) == {Tally(s), [Tally(s) EXCEPT !.passed = @ + 1]}

Wrapped(b) == [b EXCEPT !.env = "data"]

\* Bodies the /diagnose endpoint may answer with, bare or in an envelope.
DiagnoseBodies ==
  LET bare == {NullBody} \cup {Flat(s) : s \in SampleSeqs}
                \cup {Report(s, Tally(s), "") : s \in SampleSeqs}
  IN  bare \cup {Wrapped(b) : b \in bare}

\* Bodies the /troubleshooter/diagnose endpoint may answer with.
TroubleshootBodies ==
  {NullBody} \cup
  UNION {{Report(s, m, f) : m \in SummariesFor(s), f \in {"", "script"}} : s \in SampleSeqs}

\* JavaScript truthiness of a body: everything but null (an envelope is an object).
Truthy(b) == ~(b.shape = "null" /\ b.env = "none")

----------------------------------------------------------------------------
\* A JavaScript value put into a request: a string, an object or undefined.
Str(s) == [t |-> "str", s |-> s, o |-> NullBody]
Obj(b) == [t |-> "obj", s |-> <<>>, o |-> b]
Undef == [t |-> "undef", s |-> <<>>, o |-> NullBody]

VARIABLES
  route,        \* the path shown by the Router: the page that is mounted
  url,          \* OriginalTroubleshooter: useState("https://example.com")
  mode,         \* OriginalTroubleshooter: useState("beginner")
  data,         \* OriginalTroubleshooter: useState(null)
  loading,      \* OriginalTroubleshooter: useState(false)
  diagnostics,  \* TroubleshooterDashboard: useState(null)
  dashLoading,  \* TroubleshooterDashboard: its own loading, useState(false)
  requests,     \* HTTP requests in flight, each awaited by the handler that sent it
  nextId,       \* number of requests issued so far
  lastRun,      \* what the mounted page sent with its most recent diagnosis request
  lastArtifact, \* what the mounted page sent with its most recent report request
  lastSettle,   \* how the handler of the mounted page that finished last settled
  lastAnswer,   \* what the most recent settled run of the mounted page was answered
  lastDownload  \* the file name of the last download the browser was handed

vars ==
  <<route, url, mode, data, loading, diagnostics, dashLoading, requests, nextId,
    lastRun, lastArtifact, lastSettle, lastAnswer, lastDownload>>

\* The state of the diagnosis shown by the pages (the inputs are not part of it).
runState == <<data, loading, diagnostics, dashLoading>>

NoRun == [id |-> 0, url |-> Undef, mode |-> Undef]
NoSettle == [op |-> "none", transport |-> "none", promise |-> "none"]
NoAnswer == [outcome |-> "none", body |-> NullBody]

Init ==
  /\ route = "/"
  /\ url = DefaultUrl
  /\ mode = Beginner
  /\ data = NullBody
  /\ loading = FALSE
  /\ diagnostics = NullBody
  /\ dashLoading = FALSE
  /\ requests = {}
  /\ nextId = 0
  /\ lastRun = NoRun
  /\ lastArtifact = NoRun
  /\ lastSettle = NoSettle
  /\ lastAnswer = NoAnswer
  /\ lastDownload = "none"

\* A request in flight: live as long as the page that awaits it is mounted.
Request(id, kind) == [id |-> id, kind |-> kind, live |-> TRUE]

\* What was sent with request id: the url and mode fields of its parameters.
Sent(id, u, m) == [id |-> id, url |-> u, mode |-> m]

\* The settlement of a handler of request r, kept for the mounted page only.
Settle(op, transport, promise, r) ==
  IF r.live THEN [op |-> op, transport |-> transport, promise |-> promise] ELSE lastSettle

\* The answer to the run of request r, kept for the mounted page only: the
\* body of a 2xx answer, or the failure of the request.
Answer(outcome, b, r) == IF r.live THEN [outcome |-> outcome, body |-> b] ELSE lastAnswer

----------------------------------------------------------------------------
\* api.js

\* diagnose, after the GET has answered with body b: the envelope's data when
\* it is truthy, else the body.
Unwrap(b) ==
  LET inner == [b EXCEPT !.env = "none"]
  IN  IF Truthy(b) /\ b.env = "data" /\ Truthy(inner) THEN inner ELSE b

\* downloadReport(url, mode): the body of the POST to /report.
ReportPayload(u, m) == [url |-> u, mode |-> m]

----------------------------------------------------------------------------
\* OriginalTroubleshooter

SetUrl(v) ==
  /\ route = "/"
  /\ v # url
  /\ url' = v
  /\ UNCHANGED <<route, mode, data, loading, diagnostics, dashLoading, requests, nextId,
                 lastRun, lastArtifact, lastSettle, lastDownload, lastAnswer>>

SetMode(m) ==
  /\ route = "/"
  /\ m # mode
  /\ mode' = m
  /\ UNCHANGED <<route, url, data, loading, diagnostics, dashLoading, requests, nextId,
                 lastRun, lastArtifact, lastSettle, lastDownload, lastAnswer>>

\* The Run Diagnosis button without its disabled attribute.
RunButtonNeverDisabled == FALSE

\* The Run Diagnosis button: disabled={loading}.
RunButtonDisabled == loading

\* A click on Run Diagnosis: onRun up to its await.
OnRun ==
  /\ route = "/"
  /\ ~RunButtonDisabled
  /\ nextId < MaxRequests
  /\ nextId' = nextId + 1
  /\ loading' = TRUE
  /\ requests' = requests \cup {Request(nextId + 1, "diagnose")}
  /\ lastRun' = Sent(nextId + 1, Str(url), Str(mode))
  /\ UNCHANGED <<route, url, mode, data, diagnostics, dashLoading, lastArtifact, lastSettle,
                 lastDownload, lastAnswer>>

\* onRun after the await, the GET having answered 2xx with body b.
OnRunDone(r, b) ==
  /\ r \in requests
  /\ r.kind = "diagnose"
  /\ requests' = requests \ {r}
  /\ IF r.live
       THEN data' = Unwrap(b) /\ loading' = FALSE
       ELSE UNCHANGED <<data, loading>>
  /\ lastSettle' = Settle("onRun", "ok", "resolved", r)
  /\ lastAnswer' = Answer("succeeded", b, r)
  /\ UNCHANGED <<route, url, mode, diagnostics, dashLoading, nextId, lastRun, lastArtifact,
                 lastDownload>>

\* onRun with a catch block that clears the results when the GET fails.
OnRunFailedClearing(r) ==
  /\ r \in requests
  /\ r.kind = "diagnose"
  /\ requests' = requests \ {r}
  /\ IF r.live THEN data' = NullBody /\ loading' = FALSE ELSE UNCHANGED <<data, loading>>
  /\ lastSettle' = Settle("onRun", "failed", "rejected", r)
  /\ lastAnswer' = Answer("failed", NullBody, r)
  /\ UNCHANGED <<route, url, mode, diagnostics, dashLoading, nextId, lastRun, lastArtifact,
                 lastDownload>>

\* onRun without its finally block: a failed GET leaves loading set.
OnRunFailedHolding(r) ==
  /\ r \in requests
  /\ r.kind = "diagnose"
  /\ requests' = requests \ {r}
  /\ lastSettle' = Settle("onRun", "failed", "rejected", r)
  /\ lastAnswer' = Answer("failed", NullBody, r)
  /\ UNCHANGED <<route, url, mode, data, loading, diagnostics, dashLoading, nextId, lastRun,
                 lastArtifact, lastDownload>>

\* onRun after the await, the GET having failed (no answer, timeout, non-2xx):
\* diagnose rethrows, the finally block runs, the promise of onRun rejects.
OnRunFailed(r) ==
  /\ r \in requests
  /\ r.kind = "diagnose"
  /\ requests' = requests \ {r}
  /\ IF r.live THEN loading' = FALSE ELSE UNCHANGED loading
  /\ lastSettle' = Settle("onRun", "failed", "rejected", r)
  /\ lastAnswer' = Answer("failed", NullBody, r)
  /\ UNCHANGED <<route, url, mode, data, diagnostics, dashLoading, nextId, lastRun,
                 lastArtifact, lastDownload>>

\* The Download Report button is rendered when data is truthy.
DownloadButtonShown == Truthy(data)

\* A click on Download Report: onDownload up to its await.
OnDownload ==
  /\ route = "/"
  /\ DownloadButtonShown
  /\ Truthy(data)
  /\ nextId < MaxRequests
  /\ nextId' = nextId + 1
  /\ requests' = requests \cup {Request(nextId + 1, "report")}
  /\ LET p == ReportPayload(Obj(data), Str(url))
     IN  lastArtifact' = Sent(nextId + 1, p.url, p.mode)
  /\ UNCHANGED <<route, url, mode, data, loading, diagnostics, dashLoading, lastRun,
                 lastSettle, lastDownload, lastAnswer>>

\* downloadReport after the POST has answered 2xx: the blob is saved.
ReportDone(r) ==
  /\ r \in requests
  /\ r.kind = "report"
  /\ requests' = requests \ {r}
  /\ lastDownload' = "network-report.md"
  /\ lastSettle' = Settle("onDownload", "ok", "resolved", r)
  /\ UNCHANGED <<route, url, mode, data, loading, diagnostics, dashLoading, nextId, lastRun,
                 lastArtifact, lastAnswer>>

\* downloadReport with a catch block that also drops the page's results.
ReportFailedClearing(r) ==
  /\ r \in requests
  /\ r.kind = "report"
  /\ requests' = requests \ {r}
  /\ IF r.live THEN data' = NullBody ELSE UNCHANGED data
  /\ lastSettle' = Settle("onDownload", "failed", "resolved", r)
  /\ UNCHANGED <<route, url, mode, loading, diagnostics, dashLoading, nextId, lastRun,
                 lastArtifact, lastDownload, lastAnswer>>

\* downloadReport after the POST has failed: the error is caught and logged.
ReportFailed(r) ==
  /\ r \in requests
  /\ r.kind = "report"
  /\ requests' = requests \ {r}
  /\ lastSettle' = Settle("onDownload", "failed", "resolved", r)
  /\ UNCHANGED <<route, url, mode, data, loading, diagnostics, dashLoading, nextId, lastRun,
                 lastArtifact, lastDownload, lastAnswer>>

----------------------------------------------------------------------------
\* TroubleshooterDashboard

\* The report runDiagnosis shows when the POST fails.
FailureReport ==
  Report(<<Check("Connection Test", "FAIL")>>,
         [passed |-> 0, failed |-> 1, warnings |-> 0, total |-> 1], "")

\* The Run Full Diagnosis button without its disabled attribute.
RunFullButtonNeverDisabled == FALSE

\* The Run Full Diagnosis button: disabled={loading}.
RunFullButtonDisabled == dashLoading

\* A click on Run Full Diagnosis: runDiagnosis up to its await.
RunDiagnosis ==
  /\ route = "/agenthack"
  /\ ~RunFullButtonDisabled
  /\ nextId < MaxRequests
  /\ nextId' = nextId + 1
  /\ dashLoading' = TRUE
  /\ requests' = requests \cup {Request(nextId + 1, "troubleshoot")}
  /\ lastRun' = Sent(nextId + 1, Undef, Undef)
  /\ UNCHANGED <<route, url, mode, data, loading, diagnostics, lastArtifact, lastSettle,
                 lastDownload, lastAnswer>>

\* runDiagnosis after the await, the POST having answered 2xx with body b.
RunDiagnosisDone(r, b) ==
  /\ r \in requests
  /\ r.kind = "troubleshoot"
  /\ requests' = requests \ {r}
  /\ IF r.live
       THEN diagnostics' = b /\ dashLoading' = FALSE
       ELSE UNCHANGED <<diagnostics, dashLoading>>
  /\ lastSettle' = Settle("runDiagnosis", "ok", "resolved", r)
  /\ lastAnswer' = Answer("succeeded", b, r)
  /\ UNCHANGED <<route, url, mode, data, loading, nextId, lastRun, lastArtifact,
                 lastDownload>>

\* runDiagnosis with a catch block that only logs: a failed POST leaves
\* diagnostics as it was.
RunDiagnosisFailedKeeping(r) ==
  /\ r \in requests
  /\ r.kind = "troubleshoot"
  /\ requests' = requests \ {r}
  /\ IF r.live THEN dashLoading' = FALSE ELSE UNCHANGED dashLoading
  /\ lastSettle' = Settle("runDiagnosis", "failed", "resolved", r)
  /\ lastAnswer' = Answer("failed", NullBody, r)
  /\ UNCHANGED <<route, url, mode, data, loading, diagnostics, nextId, lastRun, lastArtifact,
                 lastDownload>>

\* runDiagnosis after the await, the POST having failed: the catch block.
RunDiagnosisFailed(r) ==
  /\ r \in requests
  /\ r.kind = "troubleshoot"
  /\ requests' = requests \ {r}
  /\ IF r.live
       THEN diagnostics' = FailureReport /\ dashLoading' = FALSE
       ELSE UNCHANGED <<diagnostics, dashLoading>>
  /\ lastSettle' = Settle("runDiagnosis", "failed", "resolved", r)
  /\ lastAnswer' = Answer("failed", NullBody, r)
  /\ UNCHANGED <<route, url, mode, data, loading, nextId, lastRun, lastArtifact,
                 lastDownload>>

\* The Download Script button is rendered when diagnostics.fix_script is truthy.
FixScriptShown == Truthy(diagnostics) /\ diagnostics.fix # ""

\* A click on Download Script: downloadFixScript, which sends nothing.
DownloadFixScript ==
  /\ route = "/agenthack"
  /\ FixScriptShown
  /\ Truthy(diagnostics) /\ diagnostics.fix # ""
  /\ lastDownload' = "fix_networking.sh"
  /\ UNCHANGED <<route, url, mode, data, loading, diagnostics, dashLoading, requests,
                 nextId, lastRun, lastArtifact, lastSettle, lastAnswer>>

----------------------------------------------------------------------------
\* App: the Router.  Following a Link unmounts the page shown and mounts the
\* other with its initial state; what the unmounted page has in flight stays
\* in flight, and its setters no longer change anything.
Navigate(to) ==
  /\ to # route
  /\ route' = to
  /\ url' = DefaultUrl
  /\ mode' = Beginner
  /\ data' = NullBody
  /\ loading' = FALSE
  /\ diagnostics' = NullBody
  /\ dashLoading' = FALSE
  /\ requests' = {[r EXCEPT !.live = FALSE] : r \in requests}
  /\ lastRun' = NoRun
  /\ lastArtifact' = NoRun
  /\ lastSettle' = NoSettle
  /\ lastAnswer' = NoAnswer
  /\ UNCHANGED <<nextId, lastDownload>>

Next ==
  \/ \E v \in UrlInputs : SetUrl(v)
  \/ \E m \in Modes : SetMode(m)
  \/ OnRun
  \/ \E r \in requests, b \in DiagnoseBodies : OnRunDone(r, b)
  \/ \E r \in requests : OnRunFailed(r)
  \/ OnDownload
  \/ \E r \in requests : ReportDone(r)
  \/ \E r \in requests : ReportFailed(r)
  \/ RunDiagnosis
  \/ \E r \in requests, b \in TroubleshootBodies : RunDiagnosisDone(r, b)
  \/ \E r \in requests : RunDiagnosisFailed(r)
  \/ DownloadFixScript
  \/ \E to \in {"/", "/agenthack"} : Navigate(to)

Spec == Init /\ [][Next]_vars

\* The transport settles the diagnosis request the mounted page awaits: with
\* an answer, an error, or the timeout of the axios instance.
DeliverRunning ==
  \E r \in {q \in requests : q.live} :
    \/ \E b \in DiagnoseBodies : OnRunDone(r, b)
    \/ OnRunFailed(r)
    \/ \E b \in TroubleshootBodies : RunDiagnosisDone(r, b)
    \/ RunDiagnosisFailed(r)

\* The client with a transport that settles every awaited diagnosis request.
FairSpec == Spec /\ WF_vars(DeliverRunning)

----------------------------------------------------------------------------
\* Properties

RunKinds == {"diagnose", "troubleshoot"}

IdsOf(S, kinds) == {r.id : r \in {q \in S : q.kind \in kinds}}

\* The diagnosis requests of the mounted page that are in flight.
RunningRuns == {r \in requests : r.kind \in RunKinds /\ r.live}

\* String.prototype.trim: leading and trailing white space removed.
RECURSIVE TrimLeft(_)
TrimLeft(s) == IF s # <<>> /\ Head(s) = " " THEN TrimLeft(Tail(s)) ELSE s

RECURSIVE TrimRight(_)
TrimRight(s) ==
  IF s # <<>> /\ s[Len(s)] = " " THEN TrimRight(SubSeq(s, 1, Len(s) - 1)) ELSE s

Trim(s) == TrimRight(TrimLeft(s))

\* C1: a diagnosis response that changes the state of the diagnosis shown is
\* the response of the run started last on the mounted page, and the response
\* of that run ends the loading state; the response of any other run changes
\* nothing.
C1_OnlyLatestRunApplies ==
  [][\A r \in requests :
       (r.kind \in RunKinds /\ r.id \notin IdsOf(requests', RunKinds))
         => /\ runState' # runState => r.id = lastRun.id
            /\ (r.live /\ r.id = lastRun.id) => (~loading' /\ ~dashLoading')
            /\ ~r.live => runState' = runState]_vars

\* C1 witness: the response of the second run, for another target than the
\* default one, has been applied while the superseded first run is still
\* unanswered.
C1_Witness ==
  /\ route = "/"
  /\ ~loading
  /\ Truthy(data)
  /\ lastSettle.op = "onRun" /\ lastSettle.transport = "ok"
  /\ lastRun.url # Str(DefaultUrl)
  /\ \E r \in requests :
       r.kind = "diagnose" /\ ~r.live /\ r.id < lastRun.id

\* C2: the mounted page never has two diagnosis runs running at once.
C2_AtMostOneRunning == Cardinality(RunningRuns) <= 1

\* C2 witness: a run is running on a page that already shows the results of
\* an earlier run.
C2_Witness ==
  /\ Cardinality(RunningRuns) = 1
  /\ Truthy(data) \/ Truthy(diagnostics)
  /\ loading \/ dashLoading

C4_FailureIsRecorded ==
  (lastSettle.op \in {"onRun", "runDiagnosis"}
     /\ lastSettle.transport = "failed")
    => runState # <<NullBody, FALSE, NullBody, FALSE>>

\* C5 as stated: the summary shown equals the tally of the results shown.
C5_SummaryIsTally ==
  (route = "/agenthack" /\ Truthy(diagnostics))
    => diagnostics.summary = Tally(diagnostics.entries)

\* C6 as stated: no diagnosis request is sent for a target that is empty
\* after trimming.
C6_NoRequestForBlankTarget ==
  (route = "/" /\ lastRun.id # 0) => Trim(lastRun.url.s) # <<>>

\* C7 as stated: an artifact request is sent only when a run has been started
\* on the page and no run is running.
C7_NoArtifactWhileRunning ==
  [][(IdsOf(requests', {"report"}) \ IdsOf(requests, {"report"}) # {})
       => (lastRun.id # 0 /\ ~loading /\ ~dashLoading)]_vars

\* C8 as stated: an artifact request of the mounted page carries the target
\* and the mode of the most recent run.
C8_ArtifactCarriesRunRequest ==
  lastArtifact.id # 0 => (lastArtifact.url = lastRun.url /\ lastArtifact.mode = lastRun.mode)

\* A step of an artifact operation: a report request is sent or answered, or
\* a file is handed to the browser.
ArtifactStep ==
  \/ IdsOf(requests', {"report"}) # IdsOf(requests, {"report"})
  \/ lastDownload' # lastDownload

\* C9: an artifact operation, succeeding or failing, leaves the results, the
\* summary and the loading flags as they were.
C9_ArtifactLeavesRunState == [][ArtifactStep => runState' = runState]_vars

\* C9 witness: an artifact request of the mounted page has failed and the
\* results are still shown.
C9_Witness ==
  /\ route = "/"
  /\ lastSettle.op = "onDownload" /\ lastSettle.transport = "failed"
  /\ Truthy(data)

\* C10 as stated: a failed artifact request rejects the operation.
C10_ArtifactFailureSurfaces ==
  (lastSettle.op = "onDownload" /\ lastSettle.transport = "failed")
    => lastSettle.promise = "rejected"

\* C11 as stated: what diagnose returned for the last successful run is the
\* value of the body's data field when the body is an envelope, whatever that
\* value is, and the body itself otherwise.
C11_DiagnoseReturnsDataField ==
  (route = "/" /\ lastAnswer.outcome = "succeeded")
    => data = IF lastAnswer.body.env = "data"
                THEN [lastAnswer.body EXCEPT !.env = "none"]
                ELSE lastAnswer.body

----------------------------------------------------------------------------
\* The results rendering of OriginalTroubleshooter

\* Object.entries(d): the own keys of d with their values, in key order.  An
\* envelope has the keys success and data, a flat map one key per check, a
\* report the keys summary, results and, when it has one, fix_script.
ObjectEntries(d) ==
  IF d.env = "data"
    THEN <<[key |-> "success", value |-> TRUE],
           [key |-> "data", value |-> [d EXCEPT !.env = "none"]]>>
  ELSE IF d.shape = "flat"
    THEN [i \in 1..Len(d.entries) |->
            [key |-> d.entries[i].name, value |-> [status |-> d.entries[i].status]]]
  ELSE IF d.shape = "report"
    THEN <<[key |-> "summary", value |-> d.summary],
           [key |-> "results", value |-> d.entries]>>
         \o (IF d.fix # "" THEN <<[key |-> "fix_script", value |-> d.fix]>> ELSE <<>>)
  ELSE <<>>

\* ResultCard({title, ok, children}): what the card shows.  A prop that is
\* not passed is undefined: it renders as no text, and as ok it is falsy.
ResultCard(props) ==
  LET title == IF "title" \in DOMAIN props THEN props.title ELSE ""
      ok == IF "ok" \in DOMAIN props THEN props.ok ELSE FALSE
      children == IF "children" \in DOMAIN props THEN props.children ELSE ""
  IN  [title |-> title, badge |-> IF ok THEN "OK" ELSE "Issue", children |-> children]

\* The cards rendered for data: one <ResultCard tool={tool} result={result} />
\* per entry of data, none while data is null.
Cards(d) ==
  IF Truthy(d)
    THEN [i \in 1..Len(ObjectEntries(d)) |->
            ResultCard([tool |-> ObjectEntries(d)[i].key,
                        result |-> ObjectEntries(d)[i].value])]
    ELSE <<>>

\* C12 as stated: for a flat map the page yields one result per key, in key
\* order, that carries the key as its check name and the status of the value.
C12_OneResultPerKey ==
  (route = "/" /\ data.shape = "flat" /\ data.env = "none")
    => /\ Len(Cards(data)) = Len(data.entries)
       /\ \A i \in 1..Len(data.entries) :
            /\ Cards(data)[i].title = data.entries[i].name
            /\ (Cards(data)[i].badge = "OK") <=> (data.entries[i].status = "PASS")

\* The names under which the results of d are rendered, in order.
RenderedNames(d) == [i \in 1..Len(ObjectEntries(d)) |-> ObjectEntries(d)[i].key]

\* C13 as stated: a structured report yields the same results as the flat map
\* that carries the same checks; its keys summary and results are never
\* taken for check names.
C13_ReportYieldsSameResults ==
  (route = "/" /\ data.shape = "report" /\ data.env = "none")
    => /\ RenderedNames(data) = RenderedNames(Flat(data.entries))
       /\ \A i \in 1..Len(RenderedNames(data)) :
            RenderedNames(data)[i] \notin {"summary", "results"}

\* The status of the session of the mounted page: running while its loading
\* flag is set, else what its last settled run was answered, idle before any.
Status ==
  IF loading \/ dashLoading THEN "running"
  ELSE IF lastAnswer.outcome = "none" THEN "idle"
  ELSE lastAnswer.outcome

StatusEdges ==
  {<<"idle", "running">>, <<"running", "succeeded">>, <<"running", "failed">>,
   <<"succeeded", "running">>, <<"failed", "running">>}

C15_RunEventuallyLeavesRunning ==
  /\ loading ~> ~loading
  /\ dashLoading ~> ~dashLoading

\* C15 witness: a failed run has left the running state and the run button
\* is enabled again.
C15_Witness ==
  /\ lastAnswer.outcome = "failed"
  /\ lastSettle.op \in {"onRun", "runDiagnosis"}
  /\ lastSettle.transport = "failed"
  /\ ~loading /\ ~dashLoading
  /\ ~RunButtonDisabled /\ ~RunFullButtonDisabled
  /\ RunningRuns = {}

C17_RunningHoldsNoResults ==
  Status = "running" => (~Truthy(data) /\ ~Truthy(diagnostics))

\* The diagnosis requests of one kind that are in flight, whichever instance
\* of the page sent them.
InFlight(kind) == {r \in requests : r.kind = kind}

\* C18 as stated: of each page at most one diagnosis request is in flight,
\* and the loading flag of the mounted page is set exactly when one is.
C18_LoadingIffOneInFlight ==
  /\ Cardinality(InFlight("diagnose")) <= 1
  /\ Cardinality(InFlight("troubleshoot")) <= 1
  /\ route = "/" => (loading <=> Cardinality(InFlight("diagnose")) = 1)
  /\ route = "/agenthack" => (dashLoading <=> Cardinality(InFlight("troubleshoot")) = 1)

\* C18 amended: the loading flag of the mounted page is set exactly when one
\* diagnosis request sent by this mounted instance is in flight, and this
\* instance never has more than one; requests sent by an instance that has
\* been unmounted since are not counted.
C18_LoadingIffOneOwnInFlight ==
  /\ loading <=> (route = "/" /\ Cardinality({r \in InFlight("diagnose") : r.live}) = 1)
  /\ dashLoading
       <=> (route = "/agenthack" /\ Cardinality({r \in InFlight("troubleshoot") : r.live}) = 1)
  /\ Cardinality({r \in InFlight("diagnose") : r.live}) \in {0, 1}
  /\ Cardinality({r \in InFlight("troubleshoot") : r.live}) \in {0, 1}

\* C18 witness: the mounted page is loading with its own request in flight
\* while a request of an earlier instance of the same page is in flight too.
C18_Witness ==
  /\ route = "/"
  /\ loading
  /\ \E r \in InFlight("diagnose") : r.live
  /\ \E r \in InFlight("diagnose") : ~r.live

\* C19 as stated, its second part: once the mounted dashboard holds a
\* report, diagnostics is never null again.
C19_DiagnosticsNeverNullAgain ==
  [][(route = "/agenthack" /\ route' = route /\ Truthy(diagnostics))
       => Truthy(diagnostics')]_vars

\* C19 amended: a failed run of the mounted dashboard sets diagnostics to the
\* report with the single result 'Connection Test' FAIL and the summary
\* passed 0, failed 1, warnings 0, total 1, and ends loading; an answered run
\* sets diagnostics to the body of the answer and ends loading; nothing else
\* changes diagnostics while the dashboard stays mounted, so a report gives
\* way to null only when an answer has a null body.
C19_FailureReportOrBody ==
  [][(route = "/agenthack" /\ route' = route)
       => /\ \A r \in requests :
               (r.kind = "troubleshoot" /\ r.live /\ r.id \notin IdsOf(requests', RunKinds))
                 => /\ ~dashLoading'
                    /\ lastAnswer'.outcome \in {"succeeded", "failed"}
                    /\ lastAnswer'.outcome = "failed"
                         => /\ diagnostics' = FailureReport
                            /\ diagnostics'.entries = <<Check("Connection Test", "FAIL")>>
                            /\ diagnostics'.summary =
                                 [passed |-> 0, failed |-> 1, warnings |-> 0, total |-> 1]
                    /\ lastAnswer'.outcome = "succeeded"
                         => diagnostics' = lastAnswer'.body
          /\ diagnostics' # diagnostics
               => \E r \in requests :
                    r.kind = "troubleshoot" /\ r.live /\ r.id \notin IdsOf(requests', RunKinds)
          /\ (Truthy(diagnostics) /\ ~Truthy(diagnostics'))
               => (lastAnswer'.outcome = "succeeded" /\ lastAnswer'.body = NullBody)]_vars

\* C19 witness: a run of the mounted dashboard has failed and the failure
\* report is shown, loading being over.
C19_Witness ==
  /\ route = "/agenthack"
  /\ lastSettle.op = "runDiagnosis"
  /\ lastAnswer.outcome = "failed"
  /\ diagnostics = FailureReport
  /\ ~dashLoading

====
